---- MODULE Spec2Model ----
(***************************************************************************)
(* QuickDeploy: the deployment ingestion, lifecycle and content-resolver   *)
(* handlers of the two server programs of the repository:                  *)
(*   - src/server.js          Supabase tables + Supabase storage bucket    *)
(*   - src/setup-database.js  PostgreSQL tables + deployments/ directory   *)
(*     (the schema, the triggers, and the Express server that follows      *)
(*     them in the same file).                                             *)
(* One behaviour runs one of the two programs (variable "variant").  A     *)
(* request handler is one action; the outcome of every awaited storage or  *)
(* database call that the handler tests or that can throw is an input of   *)
(* the action (parameter "fault").  Time is counted in whole days.         *)
(***************************************************************************)
EXTENDS Integers, Sequences, FiniteSets, TLC

\* ------------------------------------------------------------------ bounds
MaxUploads     == 1      \* deployment ids that upload requests generate
MaxClones      == 1      \* further deployment ids that clone requests generate
MaxNow         == 2      \* days the clock advances
MaxFiles       == 2      \* files in one multipart request

\* --------------------------------------------------------- configuration
\* config.defaultExpiryDays / config.maxExpiryDays are read from the
\* environment (DEFAULT_EXPIRY_DAYS, MAX_EXPIRY_DAYS); the model runs the
\* configuration DEFAULT_EXPIRY_DAYS=1, MAX_EXPIRY_DAYS=2.
defaultExpiryDays == 1
maxExpiryDays     == 2

\* ------------------------------------------------------------ value sets
Ids       == 1..(MaxUploads + MaxClones)
NoId      == 0                          \* an id no deployment ever had
FileNames == {"index.html", "style.css"}
NoBytes   == <<>>                       \* a response that carries no file

\* the files a request may carry: originalname and content; file.size is the
\* length of the content
MkFile(name, bytes) == [name |-> name, bytes |-> bytes]
File      == {MkFile("index.html", <<1>>), MkFile("index.html", <<2, 2>>),
              MkFile("style.css", <<1>>)}
FileSeqs  == UNION {[1..n -> File] : n \in 0..MaxFiles}

\* A deployment name, abstracted to what isValidDeploymentName looks at:
\* its length and whether every character is in [a-zA-Z0-9\s\-_].
Name(len, ok) == [len |-> len, ok |-> ok]
EmptyName     == Name(0, TRUE)          \* "" or field omitted (falsy)
NameInputs    == {EmptyName, Name(24, TRUE), Name(3, FALSE), Name(101, TRUE)}

\* A numeric request field (expiryDays, days) as parseInt sees it.
Field(num, val) == [num |-> num, val |-> val]
NaNField        == Field(FALSE, 0)      \* omitted or non-numeric
DaysInputs      == {NaNField} \cup
                   {Field(TRUE, v) : v \in {-1, 0, maxExpiryDays + 1}}

NoRow == [status |-> "none"]

VARIABLES
    variant,           \* which program runs: "supabase" | "pg"
    now,               \* the clock, in days
    nextId,            \* the next id uuidv4() / deploy-<time>-<rand> yields
    deployments,       \* table deployments: id -> row | NoRow
    deployment_files,  \* table deployment_files: id -> set of file rows
    store,             \* content store: id -> set of [path, bytes]
    res,               \* the response of the request being answered
    deleted_ok,        \* history: ids whose DELETE request reported success
    proc,              \* the requests that run concurrently, step by step
    staging,           \* uploads/: what the request being answered left there
    outside,           \* a file was extracted outside its deployment directory
    cache,             \* server.js: the NodeCache entries of the dashboard
    ui                 \* the browser page: its UploadManager and its requests

vars == <<variant, now, nextId, deployments, deployment_files, store, res,
          deleted_ok, proc, staging, outside, cache, ui>>

\* ---------------------------------------------------------------- helpers
Min(a, b) == IF a < b THEN a ELSE b

\* parseInt(field) || dflt : NaN and 0 are falsy
ParseIntOr(f, dflt) == IF (~f.num) \/ f.val = 0 THEN dflt ELSE f.val

\* `Deployment-${Date.now()}` : 11 characters and a 13-digit timestamp
DefaultName == Name(24, TRUE)

\* req.body.name || `Deployment-${Date.now()}`
NameOrDefault(n) == IF n.len = 0 THEN DefaultName ELSE n

\* the name check without its upper length limit
isValidDeploymentName_NoMaxLength(n) == n.ok /\ n.len >= 1

\* /^[a-zA-Z0-9\s\-_]+$/.test(name) && name.length >= 1 && name.length <= 100
isValidDeploymentName(n) == n.ok /\ n.len >= 1 /\ n.len <= 100

\* the new expiry without the Math.min against config.maxExpiryDays
ExpiryFrom_NoCap(t, days) == t + days

\* new Date(); setDate(getDate() + Math.min(days, config.maxExpiryDays))
ExpiryFrom(t, days) == t + Min(days, maxExpiryDays)

RECURSIVE SumSizes(_, _)
SumSizes(files, k) ==
    IF k = 0 THEN 0 ELSE SumSizes(files, k - 1) + Len(files[k].bytes)

\* storage.upload(path, buffer, {upsert: true}) / fs.copyFileSync
Put(objs, p, b) == {o \in objs : o.path # p} \cup {[path |-> p, bytes |-> b]}

RECURSIVE PutAll(_, _, _)
PutAll(objs, files, k) ==
    IF k = 0 THEN objs
    ELSE Put(PutAll(objs, files, k - 1), files[k].name, files[k].bytes)

HasObject(objs, p) == \E o \in objs : o.path = p
ObjectAt(objs, p)  == (CHOOSE o \in objs : o.path = p).bytes

\* the fileRecords array built by the upload loop
FileRecord(f)      == [file_path |-> f.name, file_size |-> Len(f.bytes)]
FileRecords(files) == [i \in 1..Len(files) |-> FileRecord(files[i])]

\* UNIQUE(deployment_id, file_path)
ViolatesUnique(existing, recs) ==
    \/ \E i, j \in 1..Len(recs) : i # j /\ recs[i].file_path = recs[j].file_path
    \/ \E i \in 1..Len(recs) : \E r \in existing : r.file_path = recs[i].file_path

\* trigger update_deployment_file_stats, AFTER INSERT ... FOR EACH ROW, on
\* the row of the deployment the inserted file row belongs to
update_deployment_stats(row, rec) ==
    [row EXCEPT !.file_count = @ + 1,
                !.total_size = @ + rec.file_size]

\* INSERT INTO deployment_files of the first k records of recs: the
\* deployment's row after the trigger ran for each of them
RECURSIVE InsertFileRows(_, _, _)
InsertFileRows(row, recs, k) ==
    IF k = 0 THEN row
    ELSE update_deployment_stats(InsertFileRows(row, recs, k - 1), recs[k])

RecSet(recs) == {recs[i] : i \in 1..Len(recs)}

\* res.status(code).json({success, ...}) / res.send(bytes).  code 0: the
\* handler ended without sending a response.  n and size are the fileCount
\* and totalSize of an upload response, n the "deleted" count of a cleanup
\* response; id is the deployment id the request was about.
Response(op, id, code, success, n, size, bytes) ==
    [op |-> op, id |-> id, code |-> code, success |-> success,
     n |-> n, size |-> size, bytes |-> bytes]

Reply(op, id, code, success) == Response(op, id, code, success, 0, 0, NoBytes)

\* no request is being answered
NoResponse == Reply("none", NoId, 0, FALSE)
Idle       == res = NoResponse

NewRow(name, n, size, expires) ==
    [status |-> "active", name |-> name, file_count |-> n,
     total_size |-> size, expires_at |-> expires]

\* the outcome of the awaited calls of one request: which call fails, and
\* for a call made once per file, at which file
Fault(kind, at) == [kind |-> kind, at |-> at]
NoFault         == Fault("none", 0)

Exists(id) == id \in Ids /\ deployments[id] # NoRow

\* uploads/: the staging directories multer made for the request being
\* answered that still exist, and the files still in them.  No handler reads
\* the directories of an earlier request.
Staged(dirs, files) == [dirs |-> dirs, files |-> files]
NoStaging == Staged(0, 0)

\* cache = new NodeCache(...): the two keys the dashboard uses.  An entry is
\* a miss (hit = FALSE) or holds the value of the last cache.set.
NoList  == [hit |-> FALSE, ids |-> {}]
NoStats == [hit |-> FALSE, total |-> 0, active |-> 0]
EmptyCache == [recent_deployments |-> NoList, stats |-> NoStats]

\* cache.del(key) for every key of keys
CacheDel(c, keys) ==
    [recent_deployments |-> IF "recent_deployments" \in keys
                            THEN NoList ELSE c.recent_deployments,
     stats              |-> IF "stats" \in keys THEN NoStats ELSE c.stats]

\* Two requests in flight at once.  A request that runs step by step is
\* at pc: "idle" (not received), "done" (answered), or between two of its
\* awaited calls.  ids: the ids a sweep selected or the list a dashboard
\* queried; stats: the stats a dashboard found or computed; expires: the
\* expiry a renew wrote; mid: the request ran while another one was between
\* two steps.
Procs == {"a", "b"}

Proc(op, pc, id, ids, expires, stats, code, success, mid) ==
    [op |-> op, pc |-> pc, id |-> id, ids |-> ids, expires |-> expires,
     stats |-> stats, code |-> code, success |-> success, mid |-> mid]

NoProc == Proc("none", "idle", NoId, {}, 0, NoStats, 0, FALSE, FALSE)

\* new UploadManager(): no file chosen, no upload started, empty form
\* fields.  currentUpload is null, true or false; inflight lists the
\* requests fetch() sent that have not settled; redirect: the timer that
\* leaves the page is armed; toast: the last message shown.
NewPage ==
    [currentUpload |-> "null", files |-> 0, name |-> EmptyName,
     zipName |-> EmptyName, inflight |-> <<>>, redirect |-> FALSE,
     toast |-> "none"]

\* ------------------------------------------------------------------- Init
Init ==
    /\ variant \in {"supabase", "pg"}
    /\ now = 0
    /\ nextId = 1
    /\ deployments = [i \in Ids |-> NoRow]
    /\ deployment_files = [i \in Ids |-> {}]
    /\ store = [i \in Ids |-> {}]
    /\ res = NoResponse
    /\ deleted_ok = {}
    /\ proc = [p \in Procs |-> NoProc]
    /\ staging = NoStaging
    /\ outside = FALSE
    /\ cache = EmptyCache
    /\ ui = NewPage

\* a day passes between two requests
Tick ==
    /\ Idle
    /\ now < MaxNow
    /\ now' = now + 1
    /\ cache' = EmptyCache
    /\ UNCHANGED <<variant, nextId, deployments, deployment_files, store, res,
                   deleted_ok, proc, staging, outside, ui>>

\* ------------------------------------------- src/server.js POST /api/upload
SbUploadFaults(files) ==
    {Fault(k, 0) : k \in {"none", "deployments_error", "deployments_PGRST204",
                          "files_error", "files_PGRST204"}} \cup
    {Fault("storage_error", k) : k \in 1..Len(files)}

SbUploadReq(nameIn, daysIn, files, fault) ==
    LET id      == nextId
        name    == NameOrDefault(nameIn)
        days    == ParseIntOr(daysIn, defaultExpiryDays)
        expires == ExpiryFrom(now, days)
        n       == Len(files)
        size    == SumSizes(files, n)
        recs    == FileRecords(files)
        row     == NewRow(name, n, size, expires)
        stored(k) == [store EXCEPT ![id] = PutAll(@, files, k)]
        used    == nextId' = nextId + 1
        \* cache.del('recent_deployments'); cache.del('stats')
        invalidated == cache' = CacheDel(cache, {"recent_deployments", "stats"})
    IN
    /\ UNCHANGED <<variant, now>>
    /\ IF ~isValidDeploymentName(name) THEN
            /\ res' = Reply("upload", id, 400, FALSE)
            /\ UNCHANGED <<nextId, deployments, deployment_files, store, cache>>
       ELSE IF fault.kind = "storage_error" THEN
            \* the upload of file fault.at fails: files before it are stored
            /\ store' = stored(fault.at - 1)
            /\ res' = Reply("upload", id, 500, FALSE)
            /\ IF fault.at > 1 THEN used ELSE UNCHANGED nextId
            /\ UNCHANGED <<deployments, deployment_files, cache>>
       ELSE IF fault.kind \in {"deployments_error", "deployments_PGRST204"} THEN
            /\ store' = stored(n)
            /\ res' = Reply("upload", id, 500, FALSE)
            /\ IF n > 0 THEN used ELSE UNCHANGED nextId
            /\ UNCHANGED <<deployments, deployment_files, cache>>
       ELSE IF n > 0 /\ (fault.kind = "files_error" \/ ViolatesUnique({}, recs)) THEN
            \* the deployments row is inserted, the file rows are not
            /\ store' = stored(n)
            /\ deployments' = [deployments EXCEPT ![id] = row]
            /\ res' = Reply("upload", id, 500, FALSE)
            /\ used
            /\ UNCHANGED <<deployment_files, cache>>
       ELSE IF n > 0 /\ fault.kind = "files_PGRST204" THEN
            /\ store' = stored(n)
            /\ deployments' = [deployments EXCEPT ![id] = row]
            /\ res' = Response("upload", id, 200, TRUE, n, size, NoBytes)
            /\ used
            /\ invalidated
            /\ UNCHANGED deployment_files
       ELSE
            /\ store' = stored(n)
            /\ deployments' =
                 [deployments EXCEPT ![id] = InsertFileRows(row, recs, n)]
            /\ deployment_files' = [deployment_files EXCEPT ![id] = RecSet(recs)]
            /\ res' = Response("upload", id, 200, TRUE, n, size, NoBytes)
            /\ used
            /\ invalidated

\* ---------------------------------- src/server.js DELETE /api/deployments/:id
SbDeleteFaults ==
    {Fault(k, 0) : k \in {"none", "check_error", "delete_error",
                          "files_error", "remove_error"}}

\* storage.remove(filePaths): the objects named by the storage_path of the
\* deployment's file rows
RemovePaths(objs, recs) ==
    {o \in objs : \A r \in recs : r.file_path # o.path}

SbDeleteReq(id, fault) ==
    /\ UNCHANGED <<variant, now, nextId, deployment_files>>
    /\ IF ~Exists(id) \/ fault.kind = "check_error" THEN
            /\ res' = Reply("delete", id, 404, FALSE)
            /\ UNCHANGED <<deployments, store, deleted_ok, cache>>
       ELSE IF fault.kind = "delete_error" THEN
            /\ res' = Reply("delete", id, 500, FALSE)
            /\ UNCHANGED <<deployments, store, deleted_ok, cache>>
       ELSE
            /\ deployments' = [deployments EXCEPT ![id].status = "deleted"]
            /\ store' = IF fault.kind \in {"files_error", "remove_error"}
                        THEN store
                        ELSE [store EXCEPT
                                ![id] = RemovePaths(@, deployment_files[id])]
            /\ res' = Reply("delete", id, 200, TRUE)
            /\ deleted_ok' = deleted_ok \cup {id}
            /\ cache' = CacheDel(cache, {"recent_deployments", "stats"})

\* ----------------------------- src/server.js POST /api/deployments/:id/renew
SbRenewFaults == {Fault(k, 0) : k \in {"none", "update_error"}}

\* the renew writing back a whole row (status included) instead of the two
\* columns expires_at and updated_at
UpdateExpiry_WritesWholeRow(table, id, expires) ==
    IF id \in Ids /\ table[id] # NoRow
    THEN [table EXCEPT ![id].expires_at = expires, ![id].status = "active"]
    ELSE table

\* UPDATE deployments SET expires_at = ... WHERE id = ... : no row, no change
UpdateExpiry(table, id, expires) ==
    IF id \in Ids /\ table[id] # NoRow
    THEN [table EXCEPT ![id].expires_at = expires]
    ELSE table

SbRenewReq(id, daysIn, fault) ==
    LET days == ParseIntOr(daysIn, defaultExpiryDays) IN
    /\ UNCHANGED <<variant, now, nextId, deployment_files, store>>
    /\ IF fault.kind = "update_error" THEN
            /\ res' = Reply("renew", id, 500, FALSE)
            /\ UNCHANGED <<deployments, cache>>
       ELSE
            /\ deployments' = UpdateExpiry(deployments, id, ExpiryFrom(now, days))
            /\ res' = Reply("renew", id, 200, TRUE)
            \* the one cache.del of this handler: 'stats' is left alone
            /\ cache' = CacheDel(cache, {"recent_deployments"})

\* ------------------------------- src/server.js GET /static/:deploymentId/*
RequestPaths   == FileNames \cup {"", "missing.txt"}
SbStaticFaults == {Fault(k, 0) : k \in {"none", "select_error", "storage_error"}}

\* the resolver without the .eq('status', 'active') filter of its lookup
SbResolve_AnyStatus(id, path, fault) ==
    IF fault.kind = "select_error" \/ ~Exists(id) THEN <<404, NoBytes>>
    ELSE IF deployments[id].expires_at < now THEN <<410, NoBytes>>
    ELSE IF fault.kind # "storage_error" /\ HasObject(store[id], path)
         THEN <<200, ObjectAt(store[id], path)>>
    ELSE IF path = "" /\ fault.kind # "storage_error"
                      /\ HasObject(store[id], "index.html")
         THEN <<200, ObjectAt(store[id], "index.html")>>
    ELSE <<404, NoBytes>>

\* the resolver without its expires_at test
SbResolve_NoExpiry(id, path, fault) ==
    IF fault.kind = "select_error" \/ ~Exists(id) THEN <<404, NoBytes>>
    ELSE IF deployments[id].status # "active" THEN <<404, NoBytes>>
    ELSE IF fault.kind # "storage_error" /\ HasObject(store[id], path)
         THEN <<200, ObjectAt(store[id], path)>>
    ELSE IF path = "" /\ fault.kind # "storage_error"
                      /\ HasObject(store[id], "index.html")
         THEN <<200, ObjectAt(store[id], "index.html")>>
    ELSE <<404, NoBytes>>

\* the status code and the bytes the resolver answers with
SbResolve(id, path, fault) ==
    IF fault.kind = "select_error" \/ ~Exists(id) THEN <<404, NoBytes>>
    ELSE IF deployments[id].status # "active" THEN <<404, NoBytes>>
    ELSE IF deployments[id].expires_at < now THEN <<410, NoBytes>>
    ELSE IF fault.kind # "storage_error" /\ HasObject(store[id], path)
         THEN <<200, ObjectAt(store[id], path)>>
    ELSE IF path = "" /\ fault.kind # "storage_error"
                      /\ HasObject(store[id], "index.html")
         THEN <<200, ObjectAt(store[id], "index.html")>>
    ELSE <<404, NoBytes>>

SbStaticReq(id, path, fault) ==
    LET r == SbResolve(id, path, fault) IN
    /\ res' = Response("static", id, r[1], r[1] = 200, 0, 0, r[2])
    /\ UNCHANGED <<variant, now, nextId, deployments, deployment_files, store>>

\* ------------------------------------------------- src/server.js GET /
SbDashboardFaults ==
    {Fault(k, 0) : k \in {"none", "list_error", "list_PGRST204",
                          "stats_error", "stats_PGRST204"}}

\* select * from deployments where status = 'active' (newest first, the
\* first 10: the table never holds more rows than that here)
QueryRecent == {i \in Ids : Exists(i) /\ deployments[i].status = "active"}

\* the stats the handler computes from every row of deployments:
\* total_deployments and active_deployments (expires_at > now).  total_size
\* and total_files are sums of columns no renew or delete writes, and
\* expiring_soon counts rows expiring within less than a day.
QueryStats ==
    [hit    |-> TRUE,
     total  |-> Cardinality({i \in Ids : Exists(i)}),
     active |-> Cardinality({i \in Ids : Exists(i)
                                         /\ deployments[i].expires_at > now})]

ZeroStats == [hit |-> TRUE, total |-> 0, active |-> 0]

\* cache.get, and on a miss the query followed by cache.set
SbDashboardReq(fault) ==
    LET listMiss  == ~cache.recent_deployments.hit
        statsMiss == ~cache.stats.hit
        list      == IF listMiss THEN [hit |-> TRUE, ids |-> QueryRecent]
                     ELSE cache.recent_deployments
        stats     == IF ~statsMiss THEN cache.stats
                     ELSE IF fault.kind = "stats_PGRST204" THEN ZeroStats
                     ELSE QueryStats
    IN
    /\ UNCHANGED <<variant, now, nextId, deployments, deployment_files, store>>
    /\ IF listMiss /\ fault.kind = "list_PGRST204" THEN
            \* rendered with setupRequired, nothing cached
            /\ res' = Response("dashboard", NoId, 200, TRUE, 0, 0, NoBytes)
            /\ UNCHANGED cache
       ELSE IF listMiss /\ fault.kind = "list_error" THEN
            /\ res' = Reply("dashboard", NoId, 500, FALSE)
            /\ UNCHANGED cache
       ELSE IF statsMiss /\ fault.kind = "stats_error" THEN
            \* thrown after the list was cached
            /\ res' = Reply("dashboard", NoId, 500, FALSE)
            /\ cache' = [cache EXCEPT !.recent_deployments = list]
       ELSE
            /\ cache' = [recent_deployments |-> list, stats |-> stats]
            \* rendered: deploymentsCount and stats.active_deployments
            /\ res' = Response("dashboard", NoId, 200, TRUE,
                               Cardinality(list.ids), stats.active, NoBytes)

\* =================== src/setup-database.js: the PostgreSQL-backed server
\* fs.readdirSync lists a directory in name order
PathOrder == <<"index.html", "style.css">>

\* getAllFiles(dir): the files of a directory, as {name, size, relativePath}
getAllFiles(objs) ==
    LET present == SelectSeq(PathOrder, LAMBDA p : HasObject(objs, p))
    IN  [i \in 1..Len(present) |-> MkFile(present[i], ObjectAt(objs, present[i]))]

\* uploadStorage.destination runs once per file and sets req.uploadId to a
\* new uuid each time: the directory uploads/<req.uploadId> the handler
\* reads holds the last file of the request only.  (filename() replaces the
\* characters outside [a-zA-Z0-9.\-_]; the names of FileNames have none.)
StagedFiles(files) ==
    IF Len(files) = 0 THEN <<>>
    ELSE getAllFiles({[path |-> files[Len(files)].name,
                       bytes |-> files[Len(files)].bytes]})

PgWriteFaults(n) ==
    {Fault(k, 0) : k \in {"none", "deployments_error", "files_error",
                          "commit_error"}} \cup
    {Fault("copy_error", k) : k \in 1..n}

\* ------------------------------------ setup-database.js POST /api/upload
PgUploadReq(nameIn, daysIn, files, fault) ==
    LET id      == nextId
        name    == NameOrDefault(nameIn)
        staged  == StagedFiles(files)
        n       == Len(staged)
        size    == SumSizes(staged, n)
        recs    == FileRecords(staged)
        days    == ParseIntOr(daysIn, defaultExpiryDays)
        row     == NewRow(name, n, size, ExpiryFrom(now, days))
        copied(k) == [store EXCEPT ![id] = PutAll(@, staged, k)]
    IN
    /\ UNCHANGED <<variant, now>>
    \* multer stages every file in a directory of its own; the handler and
    \* its catch block remove the one named by req.uploadId, the last one
    /\ staging' = IF Len(files) = 0 THEN NoStaging
                  ELSE Staged(Len(files) - 1, Len(files) - 1)
    /\ IF ~isValidDeploymentName(name) \/ Len(files) = 0 THEN
            \* thrown before any file is copied (with no file req.uploadId is
            \* undefined and path.join throws)
            /\ res' = Reply("upload", id, 500, FALSE)
            /\ UNCHANGED <<nextId, deployments, deployment_files, store>>
       ELSE IF fault.kind = "copy_error" THEN
            /\ store' = copied(fault.at - 1)
            /\ res' = Reply("upload", id, 500, FALSE)
            /\ IF fault.at > 1 THEN nextId' = nextId + 1 ELSE UNCHANGED nextId
            /\ UNCHANGED <<deployments, deployment_files>>
       ELSE IF fault.kind # "none" \/ ViolatesUnique({}, recs) THEN
            \* ROLLBACK undoes the rows; the copied files stay
            /\ store' = copied(n)
            /\ res' = Reply("upload", id, 500, FALSE)
            /\ nextId' = nextId + 1
            /\ UNCHANGED <<deployments, deployment_files>>
       ELSE
            /\ store' = copied(n)
            /\ deployments' = [deployments EXCEPT ![id] = InsertFileRows(row, recs, n)]
            /\ deployment_files' = [deployment_files EXCEPT ![id] = RecSet(recs)]
            /\ res' = Response("upload", id, 200, TRUE, n, size, NoBytes)
            /\ nextId' = nextId + 1

\* -------------------------------- setup-database.js POST /api/upload-zip
ZipKinds == {"none", "not_zip", "zip"}   \* no file | name not *.zip | *.zip

PgZipFaults(n) ==
    {Fault(k, 0) : k \in {"none", "deployments_error", "files_error",
                          "commit_error"}} \cup
    {Fault("extract_error", k) : k \in 1..n}

\* An archive may start with an entry whose name begins with ../ and so
\* names a file outside deploymentDir.  The handler hands every entry to
\* unzipper.Extract({ path: deploymentDir }) and checks no entry path itself:
\* whether such an entry is written or skipped is up to the unzipper package
\* the build installs.
ZipSlips == {"none", "skipped", "extracted"}

\* The catch block reads deploymentId, which is declared inside the try
\* block: it throws a ReferenceError after the ROLLBACK, before it removes
\* anything and before it responds.  The handler's promise is rejected:
\* Express 4 drops the rejection and the request gets no response (code 0),
\* Express 5 hands it to the error middleware, which answers 500.
PgUploadZipReq(kind, nameIn, daysIn, entries, slip, fault) ==
    LET id        == nextId
        name      == NameOrDefault(nameIn)
        extracting == kind = "zip" /\ isValidDeploymentName(name)
        extracted(k) == PutAll({}, entries, k)
        files     == getAllFiles(extracted(Len(entries)))
        n         == Len(files)
        size      == SumSizes(files, n)
        recs      == FileRecords(files)
        days      == ParseIntOr(daysIn, defaultExpiryDays)
        row       == NewRow(name, n, size, ExpiryFrom(now, days))
        noAnswer  == res' \in {Reply("upload-zip", id, 0, FALSE),
                              Reply("upload-zip", id, 500, FALSE)}
    IN
    /\ UNCHANGED <<variant, now>>
    /\ outside' = (outside \/ (extracting /\ slip = "extracted"))
    \* upload.single stages the one file; only the success path removes it
    \* (fs.unlinkSync), and nothing removes its directory
    /\ staging' = IF kind = "none" THEN NoStaging
                  ELSE IF extracting /\ fault.kind = "none" THEN Staged(1, 0)
                  ELSE Staged(1, 1)
    /\ IF kind # "zip" \/ ~isValidDeploymentName(name) THEN
            /\ noAnswer
            /\ UNCHANGED <<nextId, deployments, deployment_files, store>>
       ELSE IF fault.kind = "extract_error" THEN
            /\ store' = [store EXCEPT ![id] = extracted(fault.at - 1)]
            /\ noAnswer
            /\ IF fault.at > 1 THEN nextId' = nextId + 1 ELSE UNCHANGED nextId
            /\ UNCHANGED <<deployments, deployment_files>>
       ELSE IF fault.kind # "none" THEN
            /\ store' = [store EXCEPT ![id] = extracted(Len(entries))]
            /\ noAnswer
            /\ IF Len(entries) > 0 THEN nextId' = nextId + 1 ELSE UNCHANGED nextId
            /\ UNCHANGED <<deployments, deployment_files>>
       ELSE
            /\ store' = [store EXCEPT ![id] = extracted(Len(entries))]
            /\ deployments' = [deployments EXCEPT ![id] = InsertFileRows(row, recs, n)]
            /\ deployment_files' = [deployment_files EXCEPT ![id] = RecSet(recs)]
            /\ res' = Response("upload-zip", id, 200, TRUE, n, size, NoBytes)
            /\ nextId' = nextId + 1

\* ------------------------- setup-database.js DELETE /api/deployments/:id
PgDeleteFaults ==
    {Fault(k, 0) : k \in {"none", "update_error", "rm_error", "commit_error"}}

\* the delete handler removing config.deploymentPath itself instead of the
\* directory of the one deployment
PgDeleteReq_RemovesEveryDirectory(id, fault) ==
    /\ UNCHANGED <<variant, now, nextId, deployment_files>>
    /\ IF ~Exists(id) \/ fault.kind \in {"update_error", "rm_error"} THEN
            /\ res' = Reply("delete", id, 500, FALSE)
            /\ UNCHANGED <<deployments, store, deleted_ok>>
       ELSE IF fault.kind = "commit_error" THEN
            /\ store' = [i \in Ids |-> {}]
            /\ res' = Reply("delete", id, 500, FALSE)
            /\ UNCHANGED <<deployments, deleted_ok>>
       ELSE
            /\ deployments' = [deployments EXCEPT ![id].status = "deleted"]
            /\ store' = [i \in Ids |-> {}]
            /\ res' = Reply("delete", id, 200, TRUE)
            /\ deleted_ok' = deleted_ok \cup {id}

PgDeleteReq(id, fault) ==
    /\ UNCHANGED <<variant, now, nextId, deployment_files>>
    /\ IF ~Exists(id) \/ fault.kind \in {"update_error", "rm_error"} THEN
            /\ res' = Reply("delete", id, 500, FALSE)
            /\ UNCHANGED <<deployments, store, deleted_ok>>
       ELSE IF fault.kind = "commit_error" THEN
            \* the directory is removed before COMMIT; ROLLBACK keeps the row
            /\ store' = [store EXCEPT ![id] = {}]
            /\ res' = Reply("delete", id, 500, FALSE)
            /\ UNCHANGED <<deployments, deleted_ok>>
       ELSE
            /\ deployments' = [deployments EXCEPT ![id].status = "deleted"]
            /\ store' = [store EXCEPT ![id] = {}]
            /\ res' = Reply("delete", id, 200, TRUE)
            /\ deleted_ok' = deleted_ok \cup {id}

\* -------------------- setup-database.js POST /api/deployments/:id/renew
PgRenewFaults == {Fault(k, 0) : k \in {"none", "update_error"}}

PgRenewReq(id, daysIn, fault) ==
    LET days == ParseIntOr(daysIn, defaultExpiryDays) IN
    /\ UNCHANGED <<variant, now, nextId, deployment_files, store>>
    /\ IF fault.kind = "update_error" THEN
            /\ res' = Reply("renew", id, 500, FALSE)
            /\ UNCHANGED deployments
       ELSE
            /\ deployments' = UpdateExpiry(deployments, id, ExpiryFrom(now, days))
            /\ res' = Reply("renew", id, 200, TRUE)

\* -------------------- setup-database.js POST /api/deployments/:id/clone
\* SELECT * FROM deployment_files WHERE deployment_id = ... , as an array
FileRowsOf(id) ==
    LET present == SelectSeq(PathOrder,
                     LAMBDA p : \E r \in deployment_files[id] : r.file_path = p)
    IN  [i \in 1..Len(present) |->
           CHOOSE r \in deployment_files[id] : r.file_path = present[i]]

\* `${original.name} (Copy)`
CopyName(n) == Name(n.len + 7, FALSE)

PgCloneReq(src, fault) ==
    LET id       == nextId
        original == deployments[src]
        files    == getAllFiles(store[src])
        copied(k) == [store EXCEPT ![id] = PutAll(@, files, k)]
        recs     == FileRowsOf(src)
        row      == NewRow(CopyName(original.name), original.file_count,
                           original.total_size, now + defaultExpiryDays)
    IN
    /\ UNCHANGED <<variant, now>>
    /\ IF ~Exists(src) THEN
            /\ res' = Reply("clone", NoId, 500, FALSE)
            /\ UNCHANGED <<nextId, deployments, deployment_files, store>>
       ELSE IF fault.kind = "copy_error" THEN
            /\ store' = copied(fault.at - 1)
            /\ res' = Reply("clone", id, 500, FALSE)
            /\ IF fault.at > 1 THEN nextId' = nextId + 1 ELSE UNCHANGED nextId
            /\ UNCHANGED <<deployments, deployment_files>>
       ELSE IF fault.kind # "none" THEN
            /\ store' = copied(Len(files))
            /\ res' = Reply("clone", id, 500, FALSE)
            /\ IF Len(files) > 0 THEN nextId' = nextId + 1 ELSE UNCHANGED nextId
            /\ UNCHANGED <<deployments, deployment_files>>
       ELSE
            /\ store' = copied(Len(files))
            /\ deployments' =
                 [deployments EXCEPT ![id] = InsertFileRows(row, recs, Len(recs))]
            /\ deployment_files' = [deployment_files EXCEPT ![id] = RecSet(recs)]
            /\ res' = Reply("clone", id, 200, TRUE)
            /\ nextId' = nextId + 1

\* ----------------------------- setup-database.js POST /api/admin/cleanup
PgCleanupFaults == {Fault(k, 0) : k \in {"none", "update_error", "commit_error"}}

\* the sweep's SELECT without its status != 'deleted' predicate
ExpiredIds_AnyStatus ==
    {i \in Ids : /\ deployments[i] # NoRow
                 /\ deployments[i].expires_at < now}

\* SELECT id FROM deployments WHERE expires_at < CURRENT_TIMESTAMP
\*                              AND status != 'deleted'
ExpiredIds ==
    {i \in Ids : /\ deployments[i] # NoRow
                 /\ deployments[i].expires_at < now
                 /\ deployments[i].status # "deleted"}

PgCleanupReq(fault) ==
    LET expiredIds == ExpiredIds
        removed    == [i \in Ids |-> IF i \in expiredIds THEN {} ELSE store[i]]
    IN
    /\ UNCHANGED <<variant, now, nextId, deployment_files>>
    /\ IF fault.kind = "update_error" THEN
            /\ res' = Reply("cleanup", NoId, 500, FALSE)
            /\ UNCHANGED <<deployments, store>>
       ELSE IF fault.kind = "commit_error" THEN
            /\ store' = removed
            /\ res' = Reply("cleanup", NoId, 500, FALSE)
            /\ UNCHANGED deployments
       ELSE
            /\ deployments' =
                 [i \in Ids |-> IF i \in expiredIds
                                THEN [deployments[i] EXCEPT !.status = "deleted"]
                                ELSE deployments[i]]
            /\ store' = removed
            /\ res' = Response("cleanup", NoId, 200, TRUE,
                               Cardinality(expiredIds), 0, NoBytes)

\* ------------ setup-database.js app.use('/static', express.static(...))
\* serves a file of the deployments directory, index.html for a directory;
\* a miss falls through to the 404 handler
PgResolve(id, path) ==
    IF id \notin Ids THEN <<404, NoBytes>>
    ELSE IF HasObject(store[id], path) THEN <<200, ObjectAt(store[id], path)>>
    ELSE IF path = "" /\ HasObject(store[id], "index.html")
         THEN <<200, ObjectAt(store[id], "index.html")>>
    ELSE <<404, NoBytes>>

PgStaticReq(id, path) ==
    LET r == PgResolve(id, path) IN
    /\ res' = Response("static", id, r[1], r[1] = 200, 0, 0, r[2])
    /\ UNCHANGED <<variant, now, nextId, deployments, deployment_files, store>>

\* ------------------------------------------------------------- requests
\* One request of the running program, with every input and every outcome
\* of its awaited calls.
AnyId == Ids \cup {NoId}

SbUpload ==
    /\ variant = "supabase" /\ Idle /\ nextId <= MaxUploads
    /\ UNCHANGED <<deleted_ok, proc, staging, outside, ui>>
    /\ \E nameIn \in NameInputs, daysIn \in DaysInputs, files \in FileSeqs :
         \E fault \in SbUploadFaults(files) :
            SbUploadReq(nameIn, daysIn, files, fault)

SbDelete ==
    /\ variant = "supabase" /\ Idle
    /\ UNCHANGED <<proc, staging, outside, ui>>
    /\ \E id \in AnyId, fault \in SbDeleteFaults : SbDeleteReq(id, fault)

SbRenew ==
    /\ variant = "supabase" /\ Idle
    /\ UNCHANGED <<deleted_ok, proc, staging, outside, ui>>
    /\ \E id \in AnyId, daysIn \in DaysInputs, fault \in SbRenewFaults :
         SbRenewReq(id, daysIn, fault)

SbStatic ==
    /\ variant = "supabase" /\ Idle
    /\ UNCHANGED <<deleted_ok, proc, staging, outside, cache, ui>>
    /\ \E id \in AnyId, path \in RequestPaths, fault \in SbStaticFaults :
         SbStaticReq(id, path, fault)

SbDashboard ==
    /\ variant = "supabase" /\ Idle
    /\ UNCHANGED <<deleted_ok, proc, staging, outside, ui>>
    /\ \E fault \in SbDashboardFaults : SbDashboardReq(fault)

PgUpload ==
    /\ variant = "pg" /\ Idle /\ nextId <= MaxUploads
    /\ UNCHANGED <<deleted_ok, proc, outside, cache, ui>>
    /\ \E nameIn \in NameInputs, daysIn \in DaysInputs, files \in FileSeqs :
         \E fault \in PgWriteFaults(Len(StagedFiles(files))) :
            PgUploadReq(nameIn, daysIn, files, fault)

PgUploadZip ==
    /\ variant = "pg" /\ Idle /\ nextId <= MaxUploads
    /\ UNCHANGED <<deleted_ok, proc, cache, ui>>
    /\ \E kind \in ZipKinds, nameIn \in NameInputs, daysIn \in DaysInputs,
          entries \in FileSeqs, slip \in ZipSlips :
         \E fault \in PgZipFaults(Len(entries)) :
            PgUploadZipReq(kind, nameIn, daysIn, entries, slip, fault)

PgDelete ==
    /\ variant = "pg" /\ Idle
    /\ UNCHANGED <<proc, staging, outside, cache, ui>>
    /\ \E id \in AnyId, fault \in PgDeleteFaults : PgDeleteReq(id, fault)

PgRenew ==
    /\ variant = "pg" /\ Idle
    /\ UNCHANGED <<deleted_ok, proc, staging, outside, cache, ui>>
    /\ \E id \in AnyId, daysIn \in DaysInputs, fault \in PgRenewFaults :
         PgRenewReq(id, daysIn, fault)

PgClone ==
    /\ variant = "pg" /\ Idle /\ nextId <= MaxUploads + MaxClones
    /\ UNCHANGED <<deleted_ok, proc, staging, outside, cache, ui>>
    /\ \E src \in AnyId :
         \E fault \in PgWriteFaults(IF src \in Ids THEN Cardinality(store[src])
                                                  ELSE 0) :
            PgCloneReq(src, fault)

PgCleanup ==
    /\ variant = "pg" /\ Idle
    /\ UNCHANGED <<deleted_ok, proc, staging, outside, cache, ui>>
    /\ \E fault \in PgCleanupFaults : PgCleanupReq(fault)

PgStatic ==
    /\ variant = "pg" /\ Idle
    /\ UNCHANGED <<deleted_ok, proc, staging, outside, cache, ui>>
    /\ \E id \in AnyId, path \in RequestPaths : PgStaticReq(id, path)

\* the answered request is over; the server waits for the next one
EndRequest ==
    /\ ~Idle
    /\ res' = NoResponse
    /\ staging' = NoStaging
    /\ UNCHANGED <<variant, now, nextId, deployments, deployment_files, store,
                   deleted_ok, proc, outside, cache, ui>>

Next ==
    \/ Tick
    \/ EndRequest
    \/ SbUpload
    \/ SbDelete
    \/ SbRenew
    \/ SbStatic
    \/ SbDashboard
    \/ PgUpload
    \/ PgUploadZip
    \/ PgDelete
    \/ PgRenew
    \/ PgClone
    \/ PgCleanup
    \/ PgStatic

Spec == Init /\ [][Next]_vars
\* ------------------------------------------------- concurrent requests
\* Two requests of the running program interleave at their awaited calls.
\* Requests answered one at a time (an upload, the passing of a day) come
\* first and build the rows the concurrent requests work on.
Quiet == \A p \in Procs : proc[p].pc = "idle"

\* some request other than p is between two of its steps
OtherMid(p) == \E q \in Procs \ {p} : proc[q].pc \notin {"idle", "done"}

Done(p, op, id, code, success) ==
    [proc[p] EXCEPT !.op = op, !.pc = "done", !.id = id, !.code = code,
                    !.success = success, !.mid = OtherMid(p)]

\* row i is locked by the open transaction of another sweep, which updated
\* it and has not committed or rolled back yet
Locked(i, p) ==
    \E q \in Procs \ {p} : /\ proc[q].op = "cleanup"
                           /\ proc[q].pc \in {"updated", "removed"}
                           /\ i \in proc[q].ids

\* POST /api/admin/cleanup: BEGIN; SELECT id ... (reads committed rows)
CleanupSelect(p) ==
    /\ variant = "pg" /\ Idle /\ proc[p].pc = "idle"
    /\ proc' = [proc EXCEPT ![p] = [@ EXCEPT !.op = "cleanup",
                                             !.pc = "selected",
                                             !.ids = ExpiredIds,
                                             !.mid = OtherMid(p)]]
    /\ UNCHANGED <<variant, now, nextId, deployments, deployment_files, store,
                   res, deleted_ok, staging, outside, cache, ui>>

\* UPDATE deployments SET status = 'deleted' WHERE id = ANY(expiredIds):
\* waits for the row locks, then updates the rows with these ids as they
\* then are; the change is visible to others at COMMIT
CleanupUpdate(p) ==
    /\ proc[p].op = "cleanup" /\ proc[p].pc = "selected"
    /\ \A i \in proc[p].ids : ~Locked(i, p)
    /\ proc' = [proc EXCEPT ![p].pc = "updated"]
    /\ UNCHANGED <<variant, now, nextId, deployments, deployment_files, store,
                   res, deleted_ok, staging, outside, cache, ui>>

\* for (const id of expiredIds) fs.rmSync(deploymentDir)
CleanupRemove(p) ==
    /\ proc[p].op = "cleanup" /\ proc[p].pc = "updated"
    /\ store' = [i \in Ids |-> IF i \in proc[p].ids THEN {} ELSE store[i]]
    /\ proc' = [proc EXCEPT ![p].pc = "removed"]
    /\ UNCHANGED <<variant, now, nextId, deployments, deployment_files, res,
                   deleted_ok, staging, outside, cache, ui>>

\* COMMIT; res.json({success: true, deleted: expiredIds.length})
CleanupCommit(p) ==
    /\ proc[p].op = "cleanup" /\ proc[p].pc = "removed"
    /\ deployments' =
         [i \in Ids |-> IF i \in proc[p].ids
                        THEN [deployments[i] EXCEPT !.status = "deleted"]
                        ELSE deployments[i]]
    /\ proc' = [proc EXCEPT ![p] = Done(p, "cleanup", NoId, 200, TRUE)]
    /\ UNCHANGED <<variant, now, nextId, deployment_files, store, res,
                   deleted_ok, staging, outside, cache, ui>>

\* the UPDATE, an rmSync or the COMMIT throws: ROLLBACK, 500
CleanupAbort(p) ==
    /\ proc[p].op = "cleanup"
    /\ proc[p].pc \in {"selected", "updated", "removed"}
    /\ proc' = [proc EXCEPT ![p] = Done(p, "cleanup", NoId, 500, FALSE)]
    /\ UNCHANGED <<variant, now, nextId, deployments, deployment_files, store,
                   res, deleted_ok, staging, outside, cache, ui>>

\* POST /api/deployments/:id/renew of either program: one UPDATE statement,
\* which in PostgreSQL waits while the row is locked
RenewRun(p, id, daysIn, fault) ==
    LET days    == ParseIntOr(daysIn, defaultExpiryDays)
        expires == ExpiryFrom(now, days)
    IN
    /\ Idle /\ proc[p].pc = "idle"
    /\ ~Locked(id, p)
    /\ IF fault.kind = "update_error" THEN
            /\ proc' = [proc EXCEPT ![p] = Done(p, "renew", id, 500, FALSE)]
            /\ UNCHANGED deployments
       ELSE
            /\ deployments' = UpdateExpiry(deployments, id, expires)
            /\ proc' = [proc EXCEPT ![p] =
                          [Done(p, "renew", id, 200, TRUE)
                             EXCEPT !.expires = expires]]
    \* server.js: cache.del('recent_deployments') after the update
    /\ cache' = IF variant = "supabase" /\ fault.kind # "update_error"
                THEN CacheDel(cache, {"recent_deployments"}) ELSE cache
    /\ UNCHANGED <<variant, now, nextId, deployment_files, store, res,
                   deleted_ok, staging, outside, ui>>

\* src/server.js DELETE /api/deployments/:id: the lookup of the row
SbDeleteCheck(p, id, fault) ==
    /\ variant = "supabase" /\ Idle /\ proc[p].pc = "idle"
    /\ proc' = [proc EXCEPT ![p] =
                  IF ~Exists(id) \/ fault.kind = "check_error"
                  THEN Done(p, "delete", id, 404, FALSE)
                  ELSE [@ EXCEPT !.op = "delete", !.pc = "checked",
                                 !.id = id, !.mid = OtherMid(p)]]
    /\ UNCHANGED <<variant, now, nextId, deployments, deployment_files, store,
                   res, deleted_ok, staging, outside, cache, ui>>

\* ... update({status: 'deleted', updated_at}).eq('id', deploymentId)
SbDeleteMark(p, fault) ==
    /\ proc[p].op = "delete" /\ proc[p].pc = "checked"
    /\ IF fault.kind = "delete_error" THEN
            /\ proc' = [proc EXCEPT ![p] =
                          Done(p, "delete", proc[p].id, 500, FALSE)]
            /\ UNCHANGED deployments
       ELSE
            /\ deployments' =
                 [deployments EXCEPT ![proc[p].id].status = "deleted"]
            /\ proc' = [proc EXCEPT ![p].pc = "marked"]
    /\ UNCHANGED <<variant, now, nextId, deployment_files, store, res,
                   deleted_ok, staging, outside, cache, ui>>

\* ... select('storage_path'), storage.remove(filePaths), the two
\* cache.del, success
SbDeleteRemove(p, fault) ==
    LET id == proc[p].id IN
    /\ proc[p].op = "delete" /\ proc[p].pc = "marked"
    /\ store' = IF fault.kind \in {"files_error", "remove_error"}
                THEN store
                ELSE [store EXCEPT ![id] = RemovePaths(@, deployment_files[id])]
    /\ proc' = [proc EXCEPT ![p] = Done(p, "delete", id, 200, TRUE)]
    /\ deleted_ok' = deleted_ok \cup {id}
    /\ cache' = CacheDel(cache, {"recent_deployments", "stats"})
    /\ UNCHANGED <<variant, now, nextId, deployments, deployment_files, res,
                   staging, outside, ui>>

\* src/server.js GET /, block by block between its awaited queries.  A
\* query is answered from the rows as they are when it is sent.
\* cache.get of both keys; on a miss the query of the list, or else of the
\* stats, is sent
DashGet(p, fault) ==
    LET listMiss  == ~cache.recent_deployments.hit
        statsMiss == ~cache.stats.hit
    IN
    /\ variant = "supabase" /\ Idle /\ proc[p].pc = "idle"
    /\ proc' = [proc EXCEPT ![p] =
          IF listMiss /\ fault.kind = "list_PGRST204"
          THEN Done(p, "dashboard", NoId, 200, TRUE)
          ELSE IF listMiss /\ fault.kind = "list_error"
          THEN Done(p, "dashboard", NoId, 500, FALSE)
          ELSE IF listMiss
          THEN [@ EXCEPT !.op = "dashboard", !.pc = "listed",
                         !.ids = QueryRecent, !.stats = cache.stats,
                         !.mid = OtherMid(p)]
          ELSE IF statsMiss /\ fault.kind = "stats_error"
          THEN Done(p, "dashboard", NoId, 500, FALSE)
          ELSE IF statsMiss
          THEN [@ EXCEPT !.op = "dashboard", !.pc = "counted",
                         !.ids = cache.recent_deployments.ids,
                         !.stats = IF fault.kind = "stats_PGRST204"
                                   THEN ZeroStats ELSE QueryStats,
                         !.mid = OtherMid(p)]
          ELSE [Done(p, "dashboard", NoId, 200, TRUE)
                  EXCEPT !.ids = cache.recent_deployments.ids,
                         !.stats = cache.stats]]
    /\ UNCHANGED <<variant, now, nextId, deployments, deployment_files, store,
                   res, deleted_ok, staging, outside, cache, ui>>

\* the list arrived: cache.set(cacheKey, recentDeployments, 60); then the
\* stats found in the cache at the start are used, or their query is sent
DashSetList(p, fault) ==
    /\ proc[p].op = "dashboard" /\ proc[p].pc = "listed"
    /\ cache' = [cache EXCEPT !.recent_deployments =
                                 [hit |-> TRUE, ids |-> proc[p].ids]]
    /\ proc' = [proc EXCEPT ![p] =
          IF proc[p].stats.hit
          THEN Done(p, "dashboard", NoId, 200, TRUE)
          ELSE IF fault.kind = "stats_error"
          THEN Done(p, "dashboard", NoId, 500, FALSE)
          ELSE [@ EXCEPT !.pc = "counted",
                         !.stats = IF fault.kind = "stats_PGRST204"
                                   THEN ZeroStats ELSE QueryStats]]
    /\ UNCHANGED <<variant, now, nextId, deployments, deployment_files, store,
                   res, deleted_ok, staging, outside, ui>>

\* the rows arrived: cache.set('stats', stats, 300); res.render
DashSetStats(p) ==
    /\ proc[p].op = "dashboard" /\ proc[p].pc = "counted"
    /\ cache' = [cache EXCEPT !.stats = proc[p].stats]
    /\ proc' = [proc EXCEPT ![p] = Done(p, "dashboard", NoId, 200, TRUE)]
    /\ UNCHANGED <<variant, now, nextId, deployments, deployment_files, store,
                   res, deleted_ok, staging, outside, ui>>

Setup ==
    /\ Quiet
    /\ \/ Tick
       \/ EndRequest
       \/ SbUpload
       \/ PgUpload

Sweep == \E p \in Procs : \/ CleanupSelect(p)
                          \/ CleanupUpdate(p)
                          \/ CleanupRemove(p)
                          \/ CleanupCommit(p)
                          \/ CleanupAbort(p)

Renew ==
    \E p \in Procs, id \in AnyId, daysIn \in DaysInputs, fault \in SbRenewFaults :
        RenewRun(p, id, daysIn, fault)

Delete ==
    \E p \in Procs, fault \in SbDeleteFaults :
        \/ \E id \in AnyId : SbDeleteCheck(p, id, fault)
        \/ SbDeleteMark(p, fault)
        \/ SbDeleteRemove(p, fault)

Dashboard ==
    \E p \in Procs :
        \/ \E fault \in SbDashboardFaults : DashGet(p, fault)
        \/ \E fault \in SbDashboardFaults : DashSetList(p, fault)
        \/ DashSetStats(p)

NextConc ==
    \/ Setup
    \/ Sweep
    \/ Renew
    \/ Delete
    \/ Dashboard

SpecConc == Init /\ [][NextConc]_vars

\* ------------------------------------------- the browser: UploadManager
\* One page with its UploadManager.  The user chooses files, fills the name
\* fields and starts uploads at any time, also while a request is awaited;
\* a request settles with one of FetchOutcomes.
ServerVars == <<variant, now, nextId, deployments, deployment_files, store,
                res, deleted_ok, proc, staging, outside, cache>>

FetchOutcomes == {"success", "http_error", "success_false",
                  "network_failure", "invalid_json"}

\* UploadManager.isValidDeploymentName(name)
UploadManager_isValidDeploymentName(n) == n.ok /\ n.len >= 1 /\ n.len <= 100

\* addFile(file): this.files.push(...)
addFile ==
    /\ ui.files < MaxFiles
    /\ ui' = [ui EXCEPT !.files = @ + 1]
    /\ UNCHANGED ServerVars

\* clearFiles(): nothing to clear, or this.files = [] once confirmed
clearFiles ==
    /\ ui.files > 0
    /\ ui' = [ui EXCEPT !.files = 0, !.toast = "cleared"]
    /\ UNCHANGED ServerVars

\* the user edits #deployment-name or #zip-deployment-name
TypeName ==
    /\ \E n \in NameInputs : \E f \in {"name", "zipName"} :
          /\ ui[f] # n
          /\ ui' = [ui EXCEPT ![f] = n]
    /\ UNCHANGED ServerVars

\* uploadFiles() without its first check
uploadFiles_NoInProgressCheck ==
    /\ ui' = IF ui.files = 0
             THEN [ui EXCEPT !.toast = "no_files"]
             ELSE IF ~UploadManager_isValidDeploymentName(NameOrDefault(ui.name))
             THEN [ui EXCEPT !.toast = "invalid_name"]
             ELSE [ui EXCEPT !.currentUpload = "true",
                             !.inflight = Append(@, "/api/upload"),
                             !.toast = "loading"]
    /\ UNCHANGED ServerVars

\* uploadFiles() up to its await fetch('/api/upload', ...)
uploadFiles ==
    /\ ui' = IF ui.currentUpload = "true"
             THEN [ui EXCEPT !.toast = "in_progress"]
             ELSE IF ui.files = 0
             THEN [ui EXCEPT !.toast = "no_files"]
             ELSE IF ~UploadManager_isValidDeploymentName(NameOrDefault(ui.name))
             THEN [ui EXCEPT !.toast = "invalid_name"]
             ELSE [ui EXCEPT !.currentUpload = "true",
                             !.inflight = Append(@, "/api/upload"),
                             !.toast = "loading"]
    /\ UNCHANGED ServerVars

\* uploadZip(zipFile) up to its await fetch('/api/upload-zip', ...)
uploadZip ==
    /\ ui' = IF ui.currentUpload = "true"
             THEN [ui EXCEPT !.toast = "in_progress"]
             ELSE IF ~UploadManager_isValidDeploymentName(NameOrDefault(ui.zipName))
             THEN [ui EXCEPT !.toast = "invalid_name"]
             ELSE [ui EXCEPT !.currentUpload = "true",
                             !.inflight = Append(@, "/api/upload-zip"),
                             !.toast = "loading"]
    /\ UNCHANGED ServerVars

\* the sequence without its k-th element
RemoveAt(seq, k) ==
    [i \in 1..(Len(seq) - 1) |-> IF i < k THEN seq[i] ELSE seq[i + 1]]

\* the rest of uploadFiles() / uploadZip() once the awaited fetch and
\* response.json() settled: the success branch or the catch block, then the
\* finally block
Settle(k, outcome) ==
    LET url == ui.inflight[k] IN
    /\ ui' = [ui EXCEPT
                !.inflight = RemoveAt(@, k),
                !.currentUpload = "false",
                !.toast = IF outcome = "success" THEN "created" ELSE "failed",
                !.redirect = @ \/ outcome = "success",
                !.files = IF outcome = "success" /\ url = "/api/upload"
                          THEN 0 ELSE @,
                !.name = IF outcome = "success" /\ url = "/api/upload"
                         THEN EmptyName ELSE @,
                !.zipName = IF outcome = "success" /\ url = "/api/upload-zip"
                            THEN EmptyName ELSE @]
    /\ UNCHANGED ServerVars

Settled ==
    \E k \in 1..Len(ui.inflight) : \E outcome \in FetchOutcomes :
        Settle(k, outcome)

\* setTimeout(() => window.location.href = ..., 1500): the page is left,
\* its pending requests are dropped and the next page has a new manager
Navigate ==
    /\ ui.redirect
    /\ ui' = NewPage
    /\ UNCHANGED ServerVars

NextBrowser ==
    \/ addFile
    \/ clearFiles
    \/ TypeName
    \/ uploadFiles
    \/ uploadZip
    \/ Settled
    \/ Navigate

SpecBrowser == Init /\ [][NextBrowser]_vars

\* ================================================================= claims
\* the naming rule: letters, digits, whitespace, hyphen and underscore only,
\* 1 to 100 characters
SatisfiesNamingRule(n) == n.ok /\ n.len \in 1..100

RECURSIVE SumOfFileSizes(_)
SumOfFileSizes(rows) ==
    IF rows = {} THEN 0
    ELSE LET r == CHOOSE x \in rows : TRUE
         IN  r.file_size + SumOfFileSizes(rows \ {r})

MutatingOps == {"upload", "upload-zip", "clone", "renew", "delete", "cleanup"}

StatsMatch(id) ==
    /\ deployments[id].file_count = Cardinality(deployment_files[id])
    /\ deployments[id].total_size = SumOfFileSizes(deployment_files[id])

\* C1: after every successful upload, upload-zip, clone, renew, delete or
\* cleanup, every deployments row has file_count equal to the number of its
\* deployment_files rows and total_size equal to the sum of their file_size
\* (the update_deployment_stats trigger being installed).
C1_StatsMatchFileRows ==
    (res.success /\ res.op \in MutatingOps) =>
        \A id \in Ids : deployments[id] # NoRow => StatsMatch(id)

\* every file row of the deployment has its bytes in the content store
AllBytesStored(id) ==
    \A r \in deployment_files[id] :
        /\ HasObject(store[id], r.file_path)
        /\ Len(ObjectAt(store[id], r.file_path)) = r.file_size

FullyPresent(id) ==
    /\ deployments[id] # NoRow
    /\ Cardinality(deployment_files[id]) = deployments[id].file_count
    /\ AllBytesStored(id)

\* C2: when POST /api/upload of src/server.js fails, the deployment of the
\* generated id is fully present (row, all its file rows, all bytes) or
\* fully absent (no deployments row).
C2_FailedUploadLeavesNoPartial ==
    (variant = "supabase" /\ res.op = "upload" /\ ~res.success) =>
        (deployments[res.id] = NoRow \/ FullyPresent(res.id))

\* C3: when an upload fails after bytes were written for the new id, those
\* bytes are deleted before the error response: no bytes remain under an id
\* that has no deployments row.
C3_FailedUploadLeavesNoBytes ==
    (res.op = "upload" /\ ~res.success /\ deployments[res.id] = NoRow) =>
        store[res.id] = {}

SbUploadStep(nameIn, daysIn, files, fault) ==
    /\ variant = "supabase" /\ Idle /\ nextId <= MaxUploads
    /\ SbUploadReq(nameIn, daysIn, files, fault)

PgUploadStep(nameIn, daysIn, files, fault) ==
    /\ variant = "pg" /\ Idle /\ nextId <= MaxUploads
    /\ PgUploadReq(nameIn, daysIn, files, fault)

\* what the content resolver of src/server.js answers in the next state
SbResolveNext(id, path) ==
    IF deployments'[id] = NoRow \/ deployments'[id].status # "active"
    THEN <<404, NoBytes>>
    ELSE IF deployments'[id].expires_at < now' THEN <<410, NoBytes>>
    ELSE IF HasObject(store'[id], path) THEN <<200, ObjectAt(store'[id], path)>>
    ELSE <<404, NoBytes>>

\* C4: for every valid input of POST /api/upload of src/server.js (valid
\* name, N >= 1 allowed files of total size S) the request succeeds, the new
\* row has file_count = N and total_size = S, there are N file rows, and
\* GET /static/<id>/<file_path> returns each uploaded file's bytes.
C4_ValidUploadIsStoredAndServed ==
    [][res'.op = "upload" =>
        \A nameIn \in NameInputs, daysIn \in DaysInputs, files \in FileSeqs :
           ( /\ SatisfiesNamingRule(nameIn)
             /\ Len(files) >= 1
             /\ SbUploadStep(nameIn, daysIn, files, NoFault) )
           => /\ res'.success
              /\ deployments'[res'.id] # NoRow
              /\ deployments'[res'.id].file_count = Len(files)
              /\ deployments'[res'.id].total_size = SumSizes(files, Len(files))
              /\ Cardinality(deployment_files'[res'.id]) = Len(files)
              /\ \A k \in 1..Len(files) :
                    SbResolveNext(res'.id, files[k].name) = <<200, files[k].bytes>>
      ]_vars

\* C5: once DELETE /api/deployments/:id has succeeded for an id, every later
\* content request for that id is answered not-found and carries no bytes,
\* whether or not the stored bytes were removed.
C5_DeletedIsNeverServed ==
    [][(res'.op = "static" /\ res'.id \in deleted_ok) =>
          (res'.code = 404 /\ res'.bytes = NoBytes)]_vars

\* a deleted deployment whose bytes are still stored was requested
C5_Witness ==
    /\ res.op = "static" /\ res.id \in deleted_ok
    /\ store[res.id] # {}
    /\ res.code = 404

SbStaticStep(id, path, fault) ==
    /\ variant = "supabase" /\ Idle
    /\ SbStaticReq(id, path, fault)

Expired(id) == Exists(id) /\ deployments[id].expires_at < now
Active(id)  == Exists(id) /\ deployments[id].status = "active"

UploadRejectedCleanly ==
    /\ ~res'.success
    /\ res'.code \in {400, 500}
    /\ deployments' = deployments
    /\ deployment_files' = deployment_files
    /\ store' = store

\* C7 as claimed: an upload whose name has a character outside the allowed
\* class, is longer than 100 characters, or is the empty string, is rejected
\* and leaves no row and no bytes.
C7_InvalidOrEmptyNameRejected ==
    [][res'.op = "upload" =>
        \A nameIn \in NameInputs, daysIn \in DaysInputs, files \in FileSeqs :
          \A fault \in SbUploadFaults(files) \cup PgWriteFaults(Len(files)) :
           ( /\ ~SatisfiesNamingRule(nameIn)
             /\ \/ SbUploadStep(nameIn, daysIn, files, fault)
                \/ PgUploadStep(nameIn, daysIn, files, fault) )
           => UploadRejectedCleanly
      ]_vars

\* C7 as amended: an upload whose non-empty name has a character outside
\* the allowed class or is longer than 100 characters is rejected and
\* leaves no row, no file row and no bytes in the content store.
C7_InvalidNameRejected ==
    [][res'.op = "upload" =>
        \A nameIn \in NameInputs, daysIn \in DaysInputs, files \in FileSeqs :
          \A fault \in SbUploadFaults(files) \cup PgWriteFaults(Len(files)) :
           ( /\ nameIn.len > 0
             /\ ~SatisfiesNamingRule(nameIn)
             /\ \/ SbUploadStep(nameIn, daysIn, files, fault)
                \/ PgUploadStep(nameIn, daysIn, files, fault) )
           => UploadRejectedCleanly
      ]_vars

\* an upload was refused for its name, and nothing is stored
C7_Witness ==
    /\ res.op = "upload" /\ res.code = 400
    /\ \A id \in Ids : deployments[id] = NoRow /\ store[id] = {}

\* C8: POST /api/upload with an empty file set is rejected: no success
\* response and no deployments row.
C8_EmptyFileSetRejected ==
    [][res'.op = "upload" =>
        \A nameIn \in NameInputs, daysIn \in DaysInputs :
          \A fault \in SbUploadFaults(<<>>) \cup PgWriteFaults(0) :
           ( \/ SbUploadStep(nameIn, daysIn, <<>>, fault)
             \/ PgUploadStep(nameIn, daysIn, <<>>, fault) )
           => (~res'.success /\ deployments' = deployments)
      ]_vars

\* C9: DELETE /api/deployments/:id of an absent or already deleted
\* deployment fails and changes no row and no stored bytes.
C9_DeleteOfAbsentOrDeletedFails ==
    [][(res'.op = "delete" /\ (~Exists(res'.id)
                               \/ deployments[res'.id].status = "deleted")) =>
          /\ ~res'.success
          /\ deployments' = deployments
          /\ store' = store]_vars

\* C10: a renew of an id that no deployment has does not report success.
C10_RenewOfUnknownIdFails ==
    (res.op = "renew" /\ ~Exists(res.id)) => ~res.success

SbRenewStep(id, daysIn, fault) ==
    /\ variant = "supabase" /\ Idle
    /\ SbRenewReq(id, daysIn, fault)

PgRenewStep(id, daysIn, fault) ==
    /\ variant = "pg" /\ Idle
    /\ PgRenewReq(id, daysIn, fault)

\* C11: a successful renew never sets expires_at later than now +
\* maxExpiryDays, and a renew with days greater than maxExpiryDays sets it to
\* exactly now + maxExpiryDays.
C11_RenewCapsAtMaxExpiryDays ==
    [][res'.op = "renew" =>
        \A id \in Ids, daysIn \in DaysInputs :
          \A fault \in SbRenewFaults \cup PgRenewFaults :
           ( /\ Exists(id)
             /\ \/ SbRenewStep(id, daysIn, fault)
                \/ PgRenewStep(id, daysIn, fault)
             /\ res'.success )
           => /\ deployments'[id].expires_at <= now + maxExpiryDays
              /\ (daysIn.num /\ daysIn.val > maxExpiryDays)
                    => deployments'[id].expires_at = now + maxExpiryDays
      ]_vars

\* a renew moved the expiry of an existing deployment to now + maxExpiryDays
C11_Witness ==
    /\ res.op = "renew" /\ res.success /\ Exists(res.id)
    /\ deployments[res.id].expires_at = now + maxExpiryDays

\* C12: for every value of the days field, zero and negative integers
\* included, a successful renew sets expires_at no earlier than now + 1 day.
C12_RenewNeverBelowOneDay ==
    (res.op = "renew" /\ res.success /\ Exists(res.id)) =>
        deployments[res.id].expires_at >= now + 1

PgCloneStep(src, fault) ==
    /\ variant = "pg" /\ Idle /\ nextId <= MaxUploads + MaxClones
    /\ PgCloneReq(src, fault)

\* the row, the file rows and the stored bytes of deployment i do not change
SameDeployment(i) ==
    /\ deployments'[i] = deployments[i]
    /\ deployment_files'[i] = deployment_files[i]
    /\ store'[i] = store[i]

\* C13: POST /api/deployments/:id/clone changes nothing of any deployment
\* that exists (the source included), and a delete changes nothing of any
\* deployment other than the one it names (so the delete of a clone leaves
\* its source as it was).
C13_CloneAndSourceAreIndependent ==
    [][/\ res'.op = "clone" =>
            \A i \in Ids : (Exists(i) \/ store[i] # {}) => SameDeployment(i)
       /\ res'.op = "delete" =>
            \A i \in Ids \ {res'.id} : SameDeployment(i)
      ]_vars

\* a clone was deleted while its source is active and has stored bytes
C13_Witness ==
    /\ res.op = "delete" /\ res.success
    /\ \E src \in Ids \ {res.id} :
          /\ Exists(src) /\ deployments[src].status = "active"
          /\ store[src] # {} /\ deployment_files[src] # {}
          /\ deployments[res.id].name = CopyName(deployments[src].name)

\* C14: a clone that reports success has, for each of its file rows, bytes
\* stored under the new id at that file_path, equal to the bytes the source
\* had there when it was cloned, whatever the status of the source.
C14_CloneHasTheSourceContents ==
    [][res'.op = "clone" =>
        \A src \in Ids : \A fault \in PgWriteFaults(Cardinality(store[src])) :
           (PgCloneStep(src, fault) /\ res'.success) =>
              \A r \in deployment_files'[res'.id] :
                 /\ HasObject(store[src], r.file_path)
                 /\ HasObject(store'[res'.id], r.file_path)
                 /\ ObjectAt(store'[res'.id], r.file_path)
                      = ObjectAt(store[src], r.file_path)
      ]_vars

\* C15: when a clone fails after it generated the new id, there is no
\* deployments row for the new id and nothing is stored (hence nothing is
\* served) under it.
C15_FailedCloneLeavesNothing ==
    (res.op = "clone" /\ ~res.success /\ res.id \in Ids) =>
        /\ deployments[res.id] = NoRow
        /\ deployment_files[res.id] = {}
        /\ store[res.id] = {}

\* the deployments a sweep is to process: past expires_at and not deleted
DueForSweep ==
    {i \in Ids : Exists(i) /\ deployments[i].expires_at < now
                           /\ deployments[i].status # "deleted"}

\* C16: a successful cleanup sweep marks exactly the deployments with
\* expires_at < now and status # deleted as deleted, changes no other row,
\* and returns their number; right after it no deployment is left to
\* process, so a second sweep in succession processes zero rows.
C16_SweepMarksEachRowOnce ==
    [][(res'.op = "cleanup" /\ res'.success) =>
          /\ res'.n = Cardinality(DueForSweep)
          /\ \A i \in Ids :
                deployments'[i] =
                   IF i \in DueForSweep
                   THEN [deployments[i] EXCEPT !.status = "deleted"]
                   ELSE deployments[i]
          /\ DueForSweep' = {}
      ]_vars

\* a sweep found nothing to process after an earlier sweep had marked an
\* expired deployment deleted
C16_Witness ==
    /\ res.op = "cleanup" /\ res.success /\ res.n = 0
    /\ \E i \in Ids : /\ Exists(i) /\ deployments[i].status = "deleted"
                      /\ deployments[i].expires_at < now
                      /\ i \notin deleted_ok

SbDeleteStep(id, fault) ==
    /\ variant = "supabase" /\ Idle
    /\ SbDeleteReq(id, fault)

PgDeleteStep(id, fault) ==
    /\ variant = "pg" /\ Idle
    /\ PgDeleteReq(id, fault)

\* the removal of the stored bytes fails: storage.remove / fs.rmSync
ByteRemovalFaults == {Fault(k, 0) : k \in {"remove_error", "rm_error"}}

\* C20: when the removal of the stored bytes fails in a delete of an
\* existing deployment, the deployment still ends with status deleted and
\* the request still reports success.
C20_ByteRemovalFailureKeepsDelete ==
    [][res'.op = "delete" =>
        \A id \in Ids, fault \in ByteRemovalFaults :
           ( /\ Exists(id)
             /\ \/ SbDeleteStep(id, fault)
                \/ PgDeleteStep(id, fault) )
           => /\ res'.success
              /\ deployments'[id].status = "deleted"
      ]_vars

SweepDone(p) ==
    proc[p].op = "cleanup" /\ proc[p].pc = "done" /\ proc[p].success

\* C17: when two cleanup sweeps interleave, no deployment is marked deleted
\* by both and none is counted in both sweeps' totals.
C17_ConcurrentSweepsShareNoRow ==
    \A p, q \in Procs :
        (p # q /\ SweepDone(p) /\ SweepDone(q)) =>
            proc[p].ids \cap proc[q].ids = {}

\* C18: a sweep that interleaves with a renew applies its update only to
\* deployments whose expires_at is in the past at that moment.
C18_SweepSparesRenewedRows ==
    [][\A p \in Procs :
         (proc[p].pc = "selected" /\ proc'[p].pc = "updated") =>
            \A i \in proc[p].ids : deployments[i].expires_at < now
      ]_vars

\* a renew and a delete of the same existing deployment both reported
\* success
RenewAndDeleteDone(p, q) ==
    /\ proc[p].op = "renew" /\ proc[p].pc = "done" /\ proc[p].success
    /\ proc[q].op = "delete" /\ proc[q].pc = "done" /\ proc[q].success
    /\ proc[p].id = proc[q].id
    /\ Exists(proc[p].id)

\* C19: after a renew and a delete of src/server.js ran concurrently on one
\* deployment, in any interleaving, the row has status deleted and the
\* expires_at the renew wrote.
C19_RenewAndDeleteBothApply ==
    \A p, q \in Procs :
        RenewAndDeleteDone(p, q) =>
            /\ deployments[proc[p].id].status = "deleted"
            /\ deployments[proc[p].id].expires_at = proc[p].expires

\* the renew ran between two steps of the delete and wrote an expiry other
\* than the default one; both requests are answered
C19_Witness ==
    \E p, q \in Procs :
        /\ RenewAndDeleteDone(p, q)
        /\ proc[p].mid
        /\ deployments[proc[p].id].expires_at # now + defaultExpiryDays

PgUploadZipStep(kind, nameIn, daysIn, entries, slip, fault) ==
    /\ variant = "pg" /\ Idle /\ nextId <= MaxUploads
    /\ PgUploadZipReq(kind, nameIn, daysIn, entries, slip, fault)

\* C21: POST /api/upload-zip with a file whose name does not end in .zip is
\* answered with an error, inserts no deployments row, creates nothing under
\* deployments/ and removes the uploaded temporary file.
C21_NonArchiveRejectedCleanly ==
    [][res'.op = "upload-zip" =>
        \A nameIn \in NameInputs, daysIn \in DaysInputs, entries \in FileSeqs :
          \A slip \in ZipSlips, fault \in PgZipFaults(Len(entries)) :
            PgUploadZipStep("not_zip", nameIn, daysIn, entries, slip, fault)
            => /\ res'.code >= 400 /\ ~res'.success
               /\ deployments' = deployments
               /\ deployment_files' = deployment_files
               /\ store' = store
               /\ staging'.files = 0
      ]_vars

\* the files of a request have different names
DistinctNames(files) ==
    \A i, j \in 1..Len(files) : i # j => files[i].name # files[j].name

\* C24: in POST /api/upload of src/setup-database.js a request with N >= 1
\* files has all N copied into the deployment directory and file_count = N
\* recorded when it succeeds, and leaves no staging directory of its own
\* behind whether it succeeds or fails.
C24_AllFilesStagedTogether ==
    [][res'.op = "upload" =>
        \A nameIn \in NameInputs, daysIn \in DaysInputs, files \in FileSeqs :
          \A fault \in PgWriteFaults(Len(StagedFiles(files))) :
            ( /\ Len(files) >= 1 /\ DistinctNames(files)
              /\ PgUploadStep(nameIn, daysIn, files, fault) )
            => /\ staging' = NoStaging
               /\ res'.success =>
                    /\ \A k \in 1..Len(files) :
                          /\ HasObject(store'[nextId], files[k].name)
                          /\ ObjectAt(store'[nextId], files[k].name)
                               = files[k].bytes
                    /\ deployments'[nextId].file_count = Len(files)
      ]_vars

\* C25: every POST /api/upload-zip request is answered, and when it fails
\* nothing extracted for the new deployment id and no uploaded temporary ZIP
\* file is left.
C25_UploadZipAnswersAndCleansUp ==
    res.op = "upload-zip" =>
        /\ res.code # 0
        /\ ~res.success => (store[res.id] = {} /\ staging.files = 0)

\* C22: an upload-zip request writes no file outside the directory of the
\* new deployment, whatever the paths of the archive's entries are, and
\* creates no bytes under another deployment id.
C22_ExtractionStaysInOwnDirectory ==
    res.op = "upload-zip" =>
        /\ ~outside
        /\ \A i \in Ids : (i # res.id /\ i >= nextId) => store[i] = {}

\* C23: when a successful upload, delete or renew of src/server.js responds,
\* no dashboard cache entry written before it is left: whatever the cache
\* still holds under 'recent_deployments' and 'stats' is what the dashboard's
\* queries return now.
C23_MutationInvalidatesDashboardCache ==
    (variant = "supabase" /\ res.op \in {"upload", "delete", "renew"}
                          /\ res.success) =>
        /\ cache.recent_deployments.hit =>
              cache.recent_deployments.ids = QueryRecent
        /\ cache.stats.hit => cache.stats = QueryStats

\* C26: every deployment POST /api/upload creates expires strictly after its
\* creation time and at most maxExpiryDays days after it, whatever the
\* expiryDays field holds.
C26_FreshDeploymentNotExpired ==
    (res.op = "upload" /\ res.success /\ Exists(res.id)) =>
        /\ deployments[res.id].expires_at > now
        /\ deployments[res.id].expires_at <= now + maxExpiryDays

\* C27: a stored status that is deleted stays deleted under every request,
\* and a renew of a deleted deployment changes nothing of it but expires_at:
\* its file rows and stored bytes are as before and the content resolver of
\* src/server.js still serves none of its paths.
C27_DeletedStaysDeleted ==
    [][\A i \in Ids :
         (deployments[i] # NoRow /\ deployments[i].status = "deleted") =>
            /\ deployments'[i] # NoRow
            /\ deployments'[i].status = "deleted"
            /\ (res'.op = "renew" /\ res'.id = i /\ res'.success) =>
                  /\ deployments'[i] =
                       [deployments[i] EXCEPT
                          !.expires_at = deployments'[i].expires_at]
                  /\ deployment_files' = deployment_files
                  /\ store' = store
                  /\ variant = "supabase" =>
                       \A path \in RequestPaths :
                          SbResolveNext(i, path)[1] # 200
      ]_vars

\* a deleted deployment was renewed: it expires in the future and is still
\* deleted
C27_Witness ==
    /\ res.op = "renew" /\ res.success /\ Exists(res.id)
    /\ deployments[res.id].status = "deleted"
    /\ deployments[res.id].expires_at > now

\* C28: every stored deployments row has a name that satisfies the naming
\* rule, rows made by clone and by clone of a clone included.
C28_EveryStoredNameIsValid ==
    \A i \in Ids : Exists(i) => SatisfiesNamingRule(deployments[i].name)

\* C29: when a dashboard request and a successful delete that ran
\* concurrently have both finished, the 'recent_deployments' cache entry, if
\* there is one, does not list the deleted deployment.
C29_NoStaleListAfterConcurrentDelete ==
    \A p, q \in Procs :
        ( /\ proc[p].op = "dashboard" /\ proc[p].pc = "done"
          /\ proc[q].op = "delete" /\ proc[q].pc = "done" /\ proc[q].success )
        => ( cache.recent_deployments.hit
               => proc[q].id \notin cache.recent_deployments.ids )

\* C30: the UploadManager has at most one upload request in flight: a
\* request is sent only while no upload is in progress, uploadFiles and
\* uploadZip called during an upload send nothing, and when a request
\* settles, with whatever outcome, currentUpload is no longer set.
C30_OneUploadInFlight ==
    [][ /\ Len(ui'.inflight) <= 1
        /\ Len(ui'.inflight) > Len(ui.inflight) =>
              (ui.currentUpload # "true" /\ ui.inflight = <<>>)
        /\ ui.currentUpload = "true" =>
              \A k \in 1..Len(ui'.inflight) :
                 k <= Len(ui.inflight) /\ ui'.inflight[k] = ui.inflight[k]
        /\ Len(ui'.inflight) < Len(ui.inflight) => ui'.currentUpload # "true"
        /\ ui'.currentUpload = "true" <=> ui'.inflight # <<>>
      ]_vars

\* an upload was asked for while a request was in flight, and was refused
C30_Witness ==
    /\ ui.toast = "in_progress"
    /\ ui.currentUpload = "true"
    /\ Len(ui.inflight) = 1

====
